---- MODULE Spec2Model ----
(***************************************************************************)
(* Model of irrp_wrapper.py: the record session of class irrp (the edge    *)
(* callback cbf, end_of_code, normalise, compare and the main id loop),    *)
(* the Code Store file with its backups (load, backup, save) and the id    *)
(* loop of play.                                                           *)
(*                                                                         *)
(* Durations are held in hundredths of a microsecond (Scale = 100): the    *)
(* captured edges are whole microseconds, normalise rounds its averages to *)
(* two decimals (round(tot / similar, 2)), so every value the program can  *)
(* hold is a whole number of hundredths.  Tolerance tests are made in      *)
(* exact arithmetic; the input sets below keep away from the points where  *)
(* a floating-point product could fall on the other side of a bound.       *)
(***************************************************************************)
EXTENDS Integers, Sequences, FiniteSets, TLC

VARIABLES
  last_tick,       \* self.last_tick
  in_code,         \* self.in_code
  code,            \* self.code
  fetching_code,   \* self.fetching_code
  watchdog,        \* the watchdog of the GPIO is armed (pi.set_watchdog)
  timeout_pending, \* a TIMEOUT report of the watchdog is waiting for delivery
  records,         \* records, the in-memory Code Store
  CONFIRM,         \* CONFIRM = not no_confirm
  pc,              \* position of the main session loop
  idx,             \* position of the for loop in id_list (0 before the first)
  press_1,         \* press_1
  press_2,         \* press_2
  tries,           \* tries
  done,            \* done
  the_same,        \* the_same
  records_before,  \* history: records when the for loop took the current id
  files,           \* the files FILE, FILE.bak, FILE.bak1, FILE.bak2
  play_ids,        \* id_list of play
  sent,            \* the codes handed to pi.wave_chain by play, in order
  files_before,    \* history: files when the running record session began
  versions         \* history: what FILE held at first and after each save

vars == <<last_tick, in_code, code, fetching_code, watchdog, timeout_pending,
          records, CONFIRM, pc, idx, press_1, press_2, tries, done, the_same,
          records_before, files, play_ids, sent, files_before, versions>>

storeVars == <<files, play_ids, sent, files_before, versions>>

----------------------------------------------------------------------------
(* Parameters of record() and the numbers of the code.                     *)

Scale == 100
TOLERANCE == 15
PRE_MS == 200
POST_MS == 15
SHORT == 1
RetryBudget == 3

POST_US == POST_MS * 1000
PRE_US == PRE_MS * 1000
\* TOLER_MIN and TOLER_MAX, as percentages: x * TOLER_MIN in the code is
\* (x * TOLER_MIN) / 100 here.
TOLER_MIN == 100 - TOLERANCE
TOLER_MAX == 100 + TOLERANCE

id_list == <<"a", "b">>

\* level values of the callback: 0, 1 and pigpio.TIMEOUT (2)
TIMEOUT == 2
Levels == {0, 1, TIMEOUT}

\* The ticks at which the modelled edges arrive.
Ticks == {0, 100, 200, 317, 20000}

\* What json.load can give at the start of the session (empty on failure).
EmptyStore == [k \in {} |-> <<>>]
LoadedStores == {EmptyStore, [k \in {"b"} |-> <<900000, 450000>>]}

\* The names of the files: FILE and its three backups.
Primary == ""
Bak == ".bak"
Bak1 == ".bak1"
Bak2 == ".bak2"
FileNames == {Primary, Bak, Bak1, Bak2}

\* What a file can be: not there, not JSON, of length zero (opened for
\* writing, nothing written yet), or the JSON of a mapping.
Missing == [kind |-> "missing"]
Corrupt == [kind |-> "corrupt"]
Empty == [kind |-> "empty"]
Data(m) == [kind |-> "data", map |-> m]

NoFiles == [n \in FileNames |-> Missing]

----------------------------------------------------------------------------
(* Helpers.                                                                *)

\* pigpio.tickDiff(t1, t2): the wrap-aware difference of two ticks,
\* (t2 - t1) % 2^32.  A wrapped difference is 2^32 - (t1 - t2), which is above
\* 2^31 for every pair of modelled ticks; TLC's integers are 32-bit, so it is
\* held as 2^31 - 1.  The code only compares it with PRE_US and POST_US.
tickDiff(t1, t2) == IF t2 >= t1 THEN t2 - t1 ELSE 2147483647

\* round(n / d) for n >= 0, d > 0, ties to even (Python 3 round)
RoundDiv(n, d) ==
  LET q == n \div d
      r == n % d
  IN IF 2 * r < d THEN q
     ELSE IF 2 * r > d THEN q + 1
     ELSE IF q % 2 = 0 THEN q ELSE q + 1

RECURSIVE SumAt(_, _)
\* the sum of c[j] for j in J
SumAt(c, J) ==
  IF J = {} THEN 0
  ELSE LET j == CHOOSE x \in J : TRUE IN c[j] + SumAt(c, J \ {j})

\* (c[j]*TOLER_MIN) < v < (c[j]*TOLER_MAX)
Similar_upper(v, cj) == v * 100 < cj * TOLER_MAX
Similar(v, cj) == cj * TOLER_MIN < v * 100 /\ v * 100 < cj * TOLER_MAX

\* newv = round(tot / similar, 2), in hundredths
newv_sum(tot, similar) == tot
newv(tot, similar) == RoundDiv(tot, similar)

RECURSIVE NormFrom_stride1(_, _, _)
NormFrom_stride1(c, p, i) ==
  IF i > Len(c) THEN c
  ELSE IF i \in p THEN NormFrom_stride1(c, p, i + 1)
  ELSE
    LET v == c[i]
        J == {j \in (i + 1)..Len(c) : j \notin p /\ Similar(v, c[j])}
        nv == newv(v + SumAt(c, J), 1 + Cardinality(J))
        c2 == [k \in 1..Len(c) |-> IF k = i \/ k \in J THEN nv ELSE c[k]]
    IN NormFrom_stride1(c2, p \cup J, i + 1)

RECURSIVE NormFrom(_, _, _)
\* the for loop of normalise from index i on (1-based), p the set of
\* processed indexes
NormFrom(c, p, i) ==
  IF i > Len(c) THEN c
  ELSE IF i \in p THEN NormFrom(c, p, i + 1)
  ELSE
    LET v == c[i]
        J == {j \in (i + 2)..Len(c) :
                (j - i) % 2 = 0 /\ j \notin p /\ Similar(v, c[j])}
        nv == newv(v + SumAt(c, J), 1 + Cardinality(J))
        c2 == [k \in 1..Len(c) |-> IF k = i \/ k \in J THEN nv ELSE c[k]]
    IN NormFrom(c2, p \cup J, i + 1)

normalise(c) == NormFrom(c, {}, 1)

\* v = p1[i] / p2[i]; (v < TOLER_MIN) or (v > TOLER_MAX)
OutOfTolerance_low(a, b) == a * 100 < TOLER_MIN * b
OutOfTolerance(a, b) == a * 100 < TOLER_MIN * b \/ a * 100 > TOLER_MAX * b

\* int(round((p1[i]+p2[i])/2.0)), in hundredths
Merge_floor(a, b) == Scale * ((a + b) \div (2 * Scale))
Merge(a, b) == Scale * RoundDiv(a + b, 2 * Scale)

RECURSIVE FirstBad(_, _, _)
\* the first index i >= k whose ratio is out of tolerance, 0 when none
FirstBad(p1, p2, k) ==
  IF k > Len(p1) THEN 0
  ELSE IF OutOfTolerance(p1[k], p2[k]) THEN k
  ELSE FirstBad(p1, p2, k + 1)

\* compare(p1, p2): the result and p1 after the call
compare(p1, p2) ==
  IF Len(p1) # Len(p2) THEN [the_same |-> FALSE, p1 |-> p1]
  ELSE IF FirstBad(p1, p2, 1) # 0 THEN [the_same |-> FALSE, p1 |-> p1]
  ELSE [the_same |-> TRUE,
        p1 |-> [i \in 1..Len(p1) |-> Merge(p1[i], p2[i])]]

\* end_of_code(): self.code and self.fetching_code after the call
end_of_code_always(c, f) == [code |-> normalise(c), fetching_code |-> FALSE]
end_of_code_keep(c, f) ==
  IF Len(c) > SHORT
  THEN [code |-> normalise(c), fetching_code |-> FALSE]
  ELSE [code |-> c, fetching_code |-> f]
end_of_code(c, f) ==
  IF Len(c) > SHORT
  THEN [code |-> normalise(c), fetching_code |-> FALSE]
  ELSE [code |-> <<>>, fetching_code |-> f]

----------------------------------------------------------------------------
(* The record session.                                                     *)

Init ==
  /\ play_ids = <<>>
  /\ sent = <<>>
  /\ versions = <<>>
  /\ last_tick = 0
  /\ in_code = FALSE
  /\ code = <<>>
  /\ fetching_code = FALSE
  /\ watchdog = FALSE
  /\ timeout_pending = FALSE
  /\ records \in LoadedStores
  /\ files = [NoFiles EXCEPT ![Primary] =
                IF records = EmptyStore THEN Missing ELSE Data(records)]
  /\ files_before = files
  /\ CONFIRM \in BOOLEAN
  /\ pc = "for"
  /\ idx = 0
  /\ press_1 = <<>>
  /\ press_2 = <<>>
  /\ tries = 0
  /\ done = FALSE
  /\ the_same = FALSE
  /\ records_before = records

\* The positions of the main loop while the session runs; the callback thread
\* ends with the process, after the loop is left ("exit").
SessionPcs == {"for", "reset_1", "arm_1", "wait_1", "first", "while",
               "reset_2", "arm_2", "wait_2", "copy_2", "compare"}

mainVars == <<records, CONFIRM, pc, idx, press_1, press_2, tries, done,
              the_same, records_before>>

\* The watchdog runs out: the hardware layer queues a TIMEOUT report.
WatchdogFire ==
  /\ pc \in SessionPcs
  /\ watchdog
  /\ ~timeout_pending
  /\ timeout_pending' = TRUE
  /\ UNCHANGED <<last_tick, in_code, code, fetching_code, watchdog>>
  /\ UNCHANGED mainVars
  /\ UNCHANGED storeVars

\* cbf(gpio, level, tick)
cbf_stay(level, tick) ==
  /\ pc \in SessionPcs
  /\ IF level # TIMEOUT
     THEN
       LET edge == tickDiff(last_tick, tick) IN
       /\ tick # last_tick
       /\ last_tick' = tick
       /\ UNCHANGED timeout_pending
       /\ IF fetching_code
          THEN
            IF edge > PRE_US /\ ~in_code
            THEN /\ in_code' = TRUE
                 /\ watchdog' = TRUE
                 /\ UNCHANGED <<code, fetching_code>>
            ELSE IF edge > POST_US /\ in_code
            THEN /\ in_code' = FALSE
                 /\ watchdog' = FALSE
                 /\ code' = end_of_code(code, fetching_code).code
                 /\ fetching_code' =
                      end_of_code(code, fetching_code).fetching_code
            ELSE IF in_code
            THEN /\ code' = Append(code, edge * Scale)
                 /\ UNCHANGED <<in_code, watchdog, fetching_code>>
            ELSE UNCHANGED <<in_code, watchdog, code, fetching_code>>
          ELSE UNCHANGED <<in_code, watchdog, code, fetching_code>>
     ELSE
       /\ timeout_pending
       /\ timeout_pending' = FALSE
       /\ watchdog' = FALSE
       /\ UNCHANGED last_tick
       /\ IF in_code
          THEN /\ in_code' = in_code
               /\ code' = end_of_code(code, fetching_code).code
               /\ fetching_code' =
                    end_of_code(code, fetching_code).fetching_code
          ELSE UNCHANGED <<in_code, code, fetching_code>>
  /\ UNCHANGED mainVars
  /\ UNCHANGED storeVars
cbf_unguarded(level, tick) ==
  /\ pc \in SessionPcs
  /\ IF level # TIMEOUT
     THEN
       LET edge == tickDiff(last_tick, tick) IN
       /\ tick # last_tick
       /\ last_tick' = tick
       /\ UNCHANGED timeout_pending
       /\ IF TRUE
          THEN
            IF edge > PRE_US /\ ~in_code
            THEN /\ in_code' = TRUE
                 /\ watchdog' = TRUE
                 /\ UNCHANGED <<code, fetching_code>>
            ELSE IF edge > POST_US /\ in_code
            THEN /\ in_code' = FALSE
                 /\ watchdog' = FALSE
                 /\ code' = end_of_code(code, fetching_code).code
                 /\ fetching_code' =
                      end_of_code(code, fetching_code).fetching_code
            ELSE IF in_code
            THEN /\ code' = Append(code, edge * Scale)
                 /\ UNCHANGED <<in_code, watchdog, fetching_code>>
            ELSE UNCHANGED <<in_code, watchdog, code, fetching_code>>
          ELSE UNCHANGED <<in_code, watchdog, code, fetching_code>>
     ELSE
       /\ timeout_pending
       /\ timeout_pending' = FALSE
       /\ watchdog' = FALSE
       /\ UNCHANGED last_tick
       /\ IF in_code
          THEN /\ in_code' = FALSE
               /\ code' = end_of_code(code, fetching_code).code
               /\ fetching_code' =
                    end_of_code(code, fetching_code).fetching_code
          ELSE UNCHANGED <<in_code, code, fetching_code>>
  /\ UNCHANGED mainVars
  /\ UNCHANGED storeVars
cbf(level, tick) ==
  /\ pc \in SessionPcs
  /\ IF level # TIMEOUT
     THEN
       LET edge == tickDiff(last_tick, tick) IN
       /\ tick # last_tick
       /\ last_tick' = tick
       /\ UNCHANGED timeout_pending
       /\ IF fetching_code
          THEN
            IF edge > PRE_US /\ ~in_code
            THEN /\ in_code' = TRUE
                 /\ watchdog' = TRUE
                 /\ UNCHANGED <<code, fetching_code>>
            ELSE IF edge > POST_US /\ in_code
            THEN /\ in_code' = FALSE
                 /\ watchdog' = FALSE
                 /\ code' = end_of_code(code, fetching_code).code
                 /\ fetching_code' =
                      end_of_code(code, fetching_code).fetching_code
            ELSE IF in_code
            THEN /\ code' = Append(code, edge * Scale)
                 /\ UNCHANGED <<in_code, watchdog, fetching_code>>
            ELSE UNCHANGED <<in_code, watchdog, code, fetching_code>>
          ELSE UNCHANGED <<in_code, watchdog, code, fetching_code>>
     ELSE
       /\ timeout_pending
       /\ timeout_pending' = FALSE
       /\ watchdog' = FALSE
       /\ UNCHANGED last_tick
       /\ IF in_code
          THEN /\ in_code' = FALSE
               /\ code' = end_of_code(code, fetching_code).code
               /\ fetching_code' =
                    end_of_code(code, fetching_code).fetching_code
          ELSE UNCHANGED <<in_code, code, fetching_code>>
  /\ UNCHANGED mainVars
  /\ UNCHANGED storeVars

cbVars == <<last_tick, in_code, watchdog, timeout_pending>>

\* for arg in id_list:
MainFor ==
  /\ pc = "for"
  /\ IF idx < Len(id_list)
     THEN /\ idx' = idx + 1
          /\ pc' = "reset_1"
     ELSE /\ idx' = idx
          /\ pc' = "exit"
  /\ records_before' = records
  /\ UNCHANGED <<code, fetching_code, records, CONFIRM, press_1, press_2,
                 tries, done, the_same>>
  /\ UNCHANGED cbVars
  /\ UNCHANGED storeVars

\* self.code = []   (before the first press and before a confirming press)
MainReset_skip ==
  /\ pc \in {"reset_1", "reset_2"}
  /\ pc' = IF pc = "reset_1" THEN "arm_1" ELSE "arm_2"
  /\ UNCHANGED <<code, fetching_code, records, CONFIRM, idx, press_1, press_2,
                 tries, done, the_same, records_before>>
  /\ UNCHANGED <<last_tick, in_code, watchdog, timeout_pending>>
  /\ UNCHANGED storeVars
MainReset ==
  /\ pc \in {"reset_1", "reset_2"}
  /\ code' = <<>>
  /\ pc' = IF pc = "reset_1" THEN "arm_1" ELSE "arm_2"
  /\ UNCHANGED <<fetching_code, records, CONFIRM, idx, press_1, press_2,
                 tries, done, the_same, records_before>>
  /\ UNCHANGED cbVars
  /\ UNCHANGED storeVars

\* self.fetching_code = True
MainArm ==
  /\ pc \in {"arm_1", "arm_2"}
  /\ fetching_code' = TRUE
  /\ pc' = IF pc = "arm_1" THEN "wait_1" ELSE "wait_2"
  /\ UNCHANGED <<code, records, CONFIRM, idx, press_1, press_2, tries, done,
                 the_same, records_before>>
  /\ UNCHANGED cbVars
  /\ UNCHANGED storeVars

\* while self.fetching_code: time.sleep(0.1)   (the loop is left)
MainWait_nowait ==
  /\ pc \in {"wait_1", "wait_2"}
  /\ pc' = IF pc = "wait_1" THEN "first" ELSE "copy_2"
  /\ UNCHANGED <<code, fetching_code, records, CONFIRM, idx, press_1,
                 press_2, tries, done, the_same, records_before>>
  /\ UNCHANGED <<last_tick, in_code, watchdog, timeout_pending>>
  /\ UNCHANGED storeVars
MainWait ==
  /\ pc \in {"wait_1", "wait_2"}
  /\ ~fetching_code
  /\ pc' = IF pc = "wait_1" THEN "first" ELSE "copy_2"
  /\ UNCHANGED <<code, fetching_code, records, CONFIRM, idx, press_1,
                 press_2, tries, done, the_same, records_before>>
  /\ UNCHANGED cbVars
  /\ UNCHANGED storeVars

\* if CONFIRM: press_1 = self.code[:]; done = False; tries = 0
\* else: records[arg] = self.code[:]
MainFirst ==
  /\ pc = "first"
  /\ IF CONFIRM
     THEN /\ press_1' = code
          /\ done' = FALSE
          /\ tries' = 0
          /\ pc' = "while"
          /\ UNCHANGED records
     ELSE /\ records' = [k \in DOMAIN records \cup {id_list[idx]} |->
                           IF k = id_list[idx] THEN code ELSE records[k]]
          /\ pc' = "for"
          /\ UNCHANGED <<press_1, done, tries>>
  /\ UNCHANGED <<code, fetching_code, CONFIRM, idx, press_2, the_same,
                 records_before>>
  /\ UNCHANGED cbVars
  /\ UNCHANGED storeVars

\* while not done:
MainWhile ==
  /\ pc = "while"
  /\ pc' = IF done THEN "for" ELSE "reset_2"
  /\ UNCHANGED <<code, fetching_code, records, CONFIRM, idx, press_1,
                 press_2, tries, done, the_same, records_before>>
  /\ UNCHANGED cbVars
  /\ UNCHANGED storeVars

\* press_2 = self.code[:]
MainCopy ==
  /\ pc = "copy_2"
  /\ press_2' = code
  /\ pc' = "compare"
  /\ UNCHANGED <<code, fetching_code, records, CONFIRM, idx, press_1, tries,
                 done, the_same, records_before>>
  /\ UNCHANGED cbVars
  /\ UNCHANGED storeVars

\* if the_same: ... else: ...   after compare: what becomes of records, tries
\* and done (r the result of compare, arg the id, t the tries so far)
AfterCompare_early(r, recs, arg, t) ==
  IF r.the_same
  THEN [records |-> [k \in DOMAIN recs \cup {arg} |->
                       IF k = arg THEN r.p1 ELSE recs[k]],
        tries |-> t, done |-> TRUE]
  ELSE [records |-> recs, tries |-> t + 1, done |-> ~(t + 1 < RetryBudget)]
AfterCompare_store(r, recs, arg, t) ==
  IF r.the_same \/ ~(t + 1 <= RetryBudget)
  THEN [records |-> [k \in DOMAIN recs \cup {arg} |->
                       IF k = arg THEN r.p1 ELSE recs[k]],
        tries |-> IF r.the_same THEN t ELSE t + 1, done |-> TRUE]
  ELSE [records |-> recs, tries |-> t + 1, done |-> FALSE]
AfterCompare(r, recs, arg, t) ==
  IF r.the_same
  THEN [records |-> [k \in DOMAIN recs \cup {arg} |->
                       IF k = arg THEN r.p1 ELSE recs[k]],
        tries |-> t, done |-> TRUE]
  ELSE [records |-> recs, tries |-> t + 1, done |-> ~(t + 1 <= RetryBudget)]

\* the_same = compare(press_1, press_2) and the if that follows it
MainCompare ==
  /\ pc = "compare"
  /\ LET r == compare(press_1, press_2)
         a == AfterCompare(r, records, id_list[idx], tries)
     IN /\ the_same' = r.the_same
        /\ press_1' = r.p1
        /\ records' = a.records
        /\ tries' = a.tries
        /\ done' = a.done
  /\ pc' = "while"
  /\ UNCHANGED <<code, fetching_code, CONFIRM, idx, press_2, records_before>>
  /\ UNCHANGED cbVars
  /\ UNCHANGED storeVars

Next ==
  \/ \E level \in Levels, tick \in Ticks : cbf(level, tick)
  \/ WatchdogFire
  \/ MainFor
  \/ MainReset
  \/ MainArm
  \/ MainWait
  \/ MainFirst
  \/ MainWhile
  \/ MainCopy
  \/ MainCompare

Spec == Init /\ [][Next]_vars

----------------------------------------------------------------------------
(* normalise and compare on their own: the inputs are drawn from bounded   *)
(* sets, normalise is applied to code (twice), compare to press_1 and      *)
(* press_2.                                                                *)

MaxLen == 5
MaxCmpLen == 2

NormDurations == {100 * Scale, 117 * Scale, 127 * Scale, 600 * Scale}
CmpDurations == {100 * Scale, 101 * Scale, 10850, 117 * Scale, 127 * Scale}

SeqsUpTo(S, n) == UNION {[1..k -> S] : k \in 0..n}

\* the two presses of the docstring of compare, first four pulses
ExamplePress1 == <<9000 * Scale, 4500 * Scale, 600 * Scale, 560 * Scale>>
ExamplePress2 == <<9020 * Scale, 4570 * Scale, 590 * Scale, 550 * Scale>>
ExampleMerged == <<9010 * Scale, 4535 * Scale, 595 * Scale, 555 * Scale>>

\* the input and the output of the docstring of normalise
NormExampleIn ==
  <<9000 * Scale, 4500 * Scale, 600 * Scale, 540 * Scale, 620 * Scale,
    560 * Scale, 590 * Scale, 1660 * Scale, 620 * Scale, 1690 * Scale,
    615 * Scale>>
NormExampleOut ==
  <<9000 * Scale, 4500 * Scale, 609 * Scale, 550 * Scale, 609 * Scale,
    550 * Scale, 609 * Scale, 1675 * Scale, 609 * Scale, 1675 * Scale,
    609 * Scale>>

NormInputs == SeqsUpTo(NormDurations, MaxLen) \cup {NormExampleIn}
CmpInputs ==
  (SeqsUpTo(CmpDurations, MaxCmpLen) \X SeqsUpTo(CmpDurations, MaxCmpLen))
    \cup {<<ExamplePress1, ExamplePress2>>}

MaxPairLen == 4
PairDurations == {100 * Scale, 117 * Scale, 127 * Scale}
\* two codes of equal length
PairInputs ==
  UNION {[1..k -> PairDurations] \X [1..k -> PairDurations] :
           k \in 0..MaxPairLen}

InitFn ==
  /\ files = NoFiles
  /\ play_ids = <<>>
  /\ sent = <<>>
  /\ files_before = files
  /\ versions = <<>>
  /\ last_tick = 0
  /\ in_code = FALSE
  /\ fetching_code = FALSE
  /\ watchdog = FALSE
  /\ timeout_pending = FALSE
  /\ records = EmptyStore
  /\ CONFIRM = TRUE
  /\ idx = 0
  /\ tries = 0
  /\ done = FALSE
  /\ the_same = FALSE
  /\ records_before = records
  /\ \/ /\ pc = "norm_in"
        /\ code \in NormInputs
        /\ press_1 = <<>>
        /\ press_2 = <<>>
     \/ /\ pc = "cmp_in"
        /\ code = <<>>
        /\ \E pair \in CmpInputs : press_1 = pair[1] /\ press_2 = pair[2]
     \/ /\ pc = "pair_in"
        /\ \E pair \in PairInputs : code = pair[1] /\ press_1 = pair[2]
        /\ press_2 = <<>>

\* normalise(self.code), a first and a second time
FnNormalise ==
  /\ pc \in {"norm_in", "norm_1"}
  /\ code' = normalise(code)
  /\ pc' = IF pc = "norm_in" THEN "norm_1" ELSE "norm_2"
  /\ UNCHANGED <<fetching_code, records, CONFIRM, idx, press_1, press_2,
                 tries, done, the_same, records_before>>
  /\ UNCHANGED cbVars
  /\ UNCHANGED storeVars

\* the_same = compare(press_1, press_2)
FnCompare ==
  /\ pc = "cmp_in"
  /\ the_same' = compare(press_1, press_2).the_same
  /\ press_1' = compare(press_1, press_2).p1
  /\ pc' = "cmp_out"
  /\ UNCHANGED <<code, fetching_code, records, CONFIRM, idx, press_2, tries,
                 done, records_before>>
  /\ UNCHANGED cbVars
  /\ UNCHANGED storeVars

\* normalise applied to two codes, each on its own (code and press_1 hold
\* them)
FnNormalisePair ==
  /\ pc = "pair_in"
  /\ code' = normalise(code)
  /\ press_1' = normalise(press_1)
  /\ pc' = "pair_out"
  /\ UNCHANGED <<fetching_code, records, CONFIRM, idx, press_2, tries, done,
                 the_same, records_before>>
  /\ UNCHANGED cbVars
  /\ UNCHANGED storeVars

NextFn == FnNormalise \/ FnCompare \/ FnNormalisePair

SpecFn == InitFn /\ [][NextFn]_vars

-----------------------------------------------------------------------------
(* The code store on disk over successive invocations of record() and      *)
(* play().  No two sessions run at the same time.  What happens between    *)
(* the load and the save of a record session is the capture above; here it *)
(* is only the assignments records[arg] = ... that it ends in.             *)

MaxSaves == 4
MaxPlay == 3

StoreIds == {"a"}
CodeA1 == <<900000, 450000, 56000>>
CodeA2 == <<900000, 450000, 169000>>
CodeB == <<900000, 450000>>
StoreCodes == {CodeA1, CodeA2}
PlayIds == {"a", "b", "x"}
PlayLists == UNION {[1..k -> PlayIds] : k \in 0..MaxPlay}

Store0 == [k \in {"b"} |-> CodeB]
StoreOld == [k \in {"b"} |-> CodeA1]
StoreOlder == [k \in {"b"} |-> CodeA2]

\* what is on disk before the first session
InitFiles ==
  {NoFiles,
   [NoFiles EXCEPT ![Primary] = Corrupt],
   [NoFiles EXCEPT ![Primary] = Data(Store0)],
   [NoFiles EXCEPT ![Bak1] = Data(StoreOld), ![Bak2] = Data(StoreOlder)],
   [NoFiles EXCEPT ![Primary] = Data(Store0), ![Bak2] = Data(StoreOlder)],
   [NoFiles EXCEPT ![Primary] = Data(Store0), ![Bak] = Data(StoreOld),
                   ![Bak1] = Data(StoreOlder), ![Bak2] = Corrupt]}

\* the positions at which no process runs: before the first session, after
\* the end of record(), and after play() has returned, exited or raised
Stopped == {"idle", "play_done", "play_exit", "play_error"}

captureVars == <<last_tick, in_code, code, fetching_code, watchdog,
                 timeout_pending, CONFIRM, press_1, press_2, tries, done,
                 the_same, records_before>>

InitStore ==
  /\ files \in InitFiles
  /\ files_before = files
  /\ versions = <<files[Primary]>>
  /\ play_ids = <<>>
  /\ sent = <<>>
  /\ records = EmptyStore
  /\ pc = "idle"
  /\ idx = 0
  /\ last_tick = 0
  /\ in_code = FALSE
  /\ code = <<>>
  /\ fetching_code = FALSE
  /\ watchdog = FALSE
  /\ timeout_pending = FALSE
  /\ CONFIRM = TRUE
  /\ press_1 = <<>>
  /\ press_2 = <<>>
  /\ tries = 0
  /\ done = FALSE
  /\ the_same = FALSE
  /\ records_before = EmptyStore

\* try: os.rename(src, dst)  except: pass
\* (POSIX rename: replaces an existing dst; fails when src does not exist)
Rename_copy(fs, src, dst) ==
  IF fs[src] = Missing THEN fs ELSE [fs EXCEPT ![dst] = fs[src]]
Rename_noclobber(fs, src, dst) ==
  IF fs[src] = Missing \/ fs[dst] # Missing
  THEN fs
  ELSE [fs EXCEPT ![dst] = fs[src], ![src] = Missing]
Rename(fs, src, dst) ==
  IF fs[src] = Missing
  THEN fs
  ELSE [fs EXCEPT ![dst] = fs[src], ![src] = Missing]

\* record(): try: f = open(FILE, "r"); records = json.load(f); f.close()
\*           except: records = {}
RecordLoad ==
  /\ pc \in Stopped
  /\ Len(versions) <= MaxSaves
  /\ records' = IF files[Primary].kind = "data"
                THEN files[Primary].map
                ELSE EmptyStore
  /\ pc' = "rec"
  /\ idx' = 0
  /\ play_ids' = <<>>
  /\ sent' = <<>>
  /\ UNCHANGED <<files, files_before, versions>>
  /\ UNCHANGED captureVars

\* records[arg] = press_1[:]   /   records[arg] = self.code[:]
RecordStore ==
  /\ pc = "rec"
  /\ \E arg \in StoreIds : \E c \in StoreCodes :
       records' = [k \in DOMAIN records \cup {arg} |->
                     IF k = arg THEN c ELSE records[k]]
  /\ UNCHANGED <<pc, idx, play_ids, sent, files, files_before, versions>>
  /\ UNCHANGED captureVars

\* backup(FILE), first rename: f.bak1 -> f.bak2
Backup1 ==
  /\ pc = "rec"
  /\ files_before' = files
  /\ files' = Rename(files, Bak1, Bak2)
  /\ pc' = "backup_2"
  /\ UNCHANGED <<records, idx, play_ids, sent, versions>>
  /\ UNCHANGED captureVars

\* backup(FILE), second rename: f.bak -> f.bak1
Backup2 ==
  /\ pc = "backup_2"
  /\ files' = Rename(files, Bak, Bak1)
  /\ pc' = "backup_3"
  /\ UNCHANGED <<records, idx, play_ids, sent, files_before, versions>>
  /\ UNCHANGED captureVars

\* backup(FILE), third rename: f -> f.bak
Backup3 ==
  /\ pc = "backup_3"
  /\ files' = Rename(files, Primary, Bak)
  /\ pc' = "open_w"
  /\ UNCHANGED <<records, idx, play_ids, sent, files_before, versions>>
  /\ UNCHANGED captureVars

\* f = open(FILE, "w")   (creates the file, or truncates it)
SaveOpen ==
  /\ pc = "open_w"
  /\ files' = [files EXCEPT ![Primary] = Empty]
  /\ pc' = "write"
  /\ UNCHANGED <<records, idx, play_ids, sent, files_before, versions>>
  /\ UNCHANGED captureVars

\* f.write(json.dumps(records, sort_keys=True)...); f.close(); end of record()
SaveWrite ==
  /\ pc = "write"
  /\ files' = [files EXCEPT ![Primary] = Data(records)]
  /\ versions' = Append(versions, Data(records))
  /\ pc' = "idle"
  /\ UNCHANGED <<records, idx, play_ids, sent, files_before>>
  /\ UNCHANGED captureVars

\* play(): try: f = open(FILE, "r")  except: print("Can't open"); exit(0)
\*         records = json.load(f)     (outside the try)
PlayLoad ==
  /\ pc \in Stopped
  /\ \E l \in PlayLists : play_ids' = l
  /\ idx' = 0
  /\ sent' = <<>>
  /\ IF files[Primary] = Missing
     THEN pc' = "play_exit" /\ records' = EmptyStore
     ELSE IF files[Primary].kind = "data"
     THEN pc' = "play_loop" /\ records' = files[Primary].map
     ELSE pc' = "play_error" /\ records' = EmptyStore
  /\ UNCHANGED <<files, files_before, versions>>
  /\ UNCHANGED captureVars

\* for arg in id_list: if arg in records: ... pi.wave_chain(wave) ...
\*                     else: print("Id {} not found")
PlayId_break ==
  /\ pc = "play_loop"
  /\ idx < Len(play_ids)
  /\ LET arg == play_ids[idx + 1] IN
       IF arg \in DOMAIN records
       THEN /\ sent' = Append(sent, <<arg, records[arg]>>)
            /\ idx' = idx + 1
            /\ pc' = pc
       ELSE /\ sent' = sent
            /\ idx' = idx
            /\ pc' = "play_done"
  /\ UNCHANGED <<records, play_ids, files, files_before, versions>>
  /\ UNCHANGED captureVars
PlayId ==
  /\ pc = "play_loop"
  /\ idx < Len(play_ids)
  /\ LET arg == play_ids[idx + 1] IN
       sent' = IF arg \in DOMAIN records
               THEN Append(sent, <<arg, records[arg]>>)
               ELSE sent
  /\ idx' = idx + 1
  /\ UNCHANGED <<pc, records, play_ids, files, files_before, versions>>
  /\ UNCHANGED captureVars

\* pi.stop()   (after the last id)
PlayStop ==
  /\ pc = "play_loop"
  /\ idx = Len(play_ids)
  /\ pc' = "play_done"
  /\ UNCHANGED <<idx, records, play_ids, sent, files, files_before, versions>>
  /\ UNCHANGED captureVars

NextStore ==
  \/ RecordLoad
  \/ RecordStore
  \/ Backup1
  \/ Backup2
  \/ Backup3
  \/ SaveOpen
  \/ SaveWrite
  \/ PlayLoad
  \/ PlayId
  \/ PlayStop

SpecStore == InitStore /\ [][NextStore]_vars

----------------------------------------------------------------------------
(* The claims.                                                             *)

\* no two different values of the same parity in c are similar (the earlier
\* one as the seed)
Separated(c) ==
  \A i \in 1..Len(c) : \A j \in (i + 1)..Len(c) :
    ((j - i) % 2 = 0 /\ c[i] # c[j]) => ~Similar(c[i], c[j])

\* C1 (as stated): normalise applied to the result of normalise changes no
\* element, for every raw code.
C1_Idempotent ==
  [][(pc = "norm_1" /\ pc' = "norm_2") => code' = code]_vars

\* C1 (amended): normalise applied to the result of normalise changes no
\* element whenever no two different same-parity values of that result are
\* within tolerance of each other.
C1_IdempotentWhenSeparated ==
  [][(pc = "norm_1" /\ pc' = "norm_2" /\ Separated(code)) => code' = code]_vars

\* a twice-normalised code that holds an averaged cluster (a value that is not
\* a whole microsecond) and whose values are separated
C1_Witness ==
  /\ pc = "norm_2"
  /\ Separated(code)
  /\ \E i \in 1..Len(code) : code[i] % Scale # 0

\* the ratio a / b lies in [1 - tol, 1 + tol]
WithinTolerance(a, b) ==
  (100 - TOLERANCE) * b <= 100 * a /\ 100 * a <= (100 + TOLERANCE) * b

\* C2: compare reports a match if and only if the lengths are equal and every
\* ratio p1[i]/p2[i] lies in [1-tol, 1+tol].
C2_MatchIff ==
  [][(pc = "cmp_in" /\ pc' = "cmp_out") =>
       (the_same' <=>
          (/\ Len(press_1) = Len(press_2)
           /\ \A i \in 1..Len(press_1) :
                WithinTolerance(press_1[i], press_2[i])))]_vars

\* a rejected pair of equal length in which exactly one index is out of
\* tolerance and another index is within
C2_Witness ==
  /\ pc = "cmp_out"
  /\ ~the_same
  /\ Len(press_1) = Len(press_2)
  /\ Len(press_1) >= 2
  /\ Cardinality({i \in 1..Len(press_1) :
                    ~WithinTolerance(press_1[i], press_2[i])}) = 1

\* r is a whole number of microseconds nearest to half of s
NearestToHalf(r, s) ==
  /\ r % Scale = 0
  /\ 2 * r - s <= Scale
  /\ s - 2 * r <= Scale

\* C3: a successful compare overwrites every p1[i] with the rounded mean of
\* p1[i] and p2[i] and leaves p2 alone (the example of the docstring gives
\* 9010 4535 595 555); a failed compare changes neither p1 nor p2.
C3_CompareEffect ==
  [][(pc = "cmp_in" /\ pc' = "cmp_out") =>
       /\ press_2' = press_2
       /\ IF the_same'
          THEN /\ Len(press_1') = Len(press_1)
               /\ \A i \in 1..Len(press_1) :
                    NearestToHalf(press_1'[i], press_1[i] + press_2[i])
          ELSE press_1' = press_1
       /\ (press_1 = ExamplePress1 /\ press_2 = ExamplePress2) =>
            (the_same' /\ press_1' = ExampleMerged)]_vars

\* the example of the docstring, merged
C3_Witness ==
  /\ pc = "cmp_out"
  /\ the_same
  /\ press_2 = ExamplePress2
  /\ press_1 = ExampleMerged

\* a step of the callback that finalizes a code (end_of_code is called right
\* after in_code is cleared)
Finalizes == in_code /\ ~in_code'

C5_RejectsLessThanShort ==
  [][Finalizes =>
       ((code' = <<>> /\ fetching_code') <=> Len(code) < SHORT)]_vars

ConfirmLoopPcs == {"reset_2", "arm_2", "wait_2", "copy_2", "compare"}

\* C6: in the confirm loop a compare is only reached with at most RetryBudget
\* failures behind it (one confirmation and RetryBudget retries at most), and
\* the loop is left either on a match or with the budget used up.
C6_BoundedRetries ==
  /\ pc \in ConfirmLoopPcs => (~done /\ tries <= RetryBudget)
  /\ (pc = "while" /\ done) => (the_same \/ tries = RetryBudget + 1)
  /\ tries <= RetryBudget + 1

\* the session gave up on an id
GaveUp == pc = "while" /\ done /\ ~the_same

C6_Witness == GaveUp /\ tries = RetryBudget + 1 /\ press_1 # press_2

\* C7: when the session gives up on an id the mapping is what it was when the
\* id was taken, the main loop goes on to the for statement, and the for
\* statement takes the next id of the list (or leaves the loop after the
\* last).
C7_Abandon ==
  [][/\ GaveUp' => records' = records_before'
     /\ (GaveUp /\ pc' # pc) => (pc' = "for" /\ idx' = idx /\ records' = records)
     /\ (pc = "for" /\ pc' # pc) =>
          IF idx < Len(id_list)
          THEN pc' = "reset_1" /\ idx' = idx + 1
          ELSE pc' = "exit"]_vars

\* the first id was abandoned and the second one has been confirmed and stored
C7_Witness ==
  /\ CONFIRM
  /\ idx = 2
  /\ pc = "while" /\ done /\ the_same
  /\ id_list[1] \notin DOMAIN records
  /\ id_list[2] \in DOMAIN records
  /\ records # records_before

C9_IntegerDurations ==
  \A k \in DOMAIN records : \A i \in 1..Len(records[k]) :
    records[k][i] % Scale = 0

\* the positions at which the main loop reads self.code
ReadPcs == {"first", "copy_2"}

\* C10: the callback (a step that leaves pc alone) changes code or in_code
\* only while fetching_code is set; the main loop (a step that changes pc)
\* resets code only while fetching_code is clear and reads it only while
\* fetching_code is clear.
C10_SingleWriter ==
  [][/\ (pc' = pc /\ (code' # code \/ in_code' # in_code)) => fetching_code
     /\ (pc' # pc /\ code' # code) => ~fetching_code
     /\ (pc \in {"reset_1", "reset_2"} /\ pc' # pc) => ~fetching_code
     /\ (pc \in ReadPcs /\ pc' # pc) => ~fetching_code]_vars

\* the main loop is about to read a code the callback has completed, and an
\* edge has arrived since (a stale timeout report is still waiting)
C10_Witness ==
  /\ pc = "copy_2"
  /\ ~fetching_code
  /\ Len(code) > SHORT
  /\ timeout_pending

\* C11: at 15% normalise turns the code of its docstring,
\* 9000 4500 600 540 620 560 590 1660 620 1690 615, into
\* 9000 4500 609 550 609 550 609 1675 609 1675 609.
C11_WorkedExample ==
  [][(pc = "norm_in" /\ pc' = "norm_1" /\ code = NormExampleIn) =>
       code' = NormExampleOut]_vars

\* the docstring's code, normalised: five marks at 609, the spaces at 550 and
\* 1675, 9000 and 4500 alone
C11_Witness ==
  /\ pc = "norm_1"
  /\ Len(code) = Len(NormExampleIn)
  /\ code[1] = 9000 * Scale /\ code[2] = 4500 * Scale
  /\ \A i \in {3, 5, 7, 9, 11} : code[i] = 609 * Scale
  /\ \A i \in {4, 6} : code[i] = 550 * Scale
  /\ \A i \in {8, 10} : code[i] = 1675 * Scale

\* the indexes of c of one parity (1, 3, ... are the marks, 2, 4, ... the
\* spaces)
OfParity(c, par) == {i \in 1..Len(c) : i % 2 = par}

\* C19: two codes of equal length that agree at every index of one parity
\* are normalised to codes that agree at every index of that parity, whatever
\* the values of the other parity are.
C19_ParitySeparate ==
  [][(pc = "pair_in" /\ pc' = "pair_out") =>
       \A par \in {0, 1} :
         (\A i \in OfParity(code, par) : code[i] = press_1[i]) =>
           (\A i \in OfParity(code, par) : code'[i] = press_1'[i])]_vars

\* two normalised codes with the same averaged marks and different spaces
C19_Witness ==
  /\ pc = "pair_out"
  /\ Len(code) >= 3
  /\ \A i \in OfParity(code, 1) : code[i] = press_1[i] /\ code[i] % Scale # 0
  /\ \E i \in OfParity(code, 0) : code[i] # press_1[i]

\* a step of the callback for an edge (only it changes last_tick), and the
\* gap of that edge
EdgeStep == last_tick' # last_tick
Gap == tickDiff(last_tick, last_tick')

\* C17: while fetching, an edge with a gap above PRE_US outside a code starts
\* a code, arms the watchdog and is not recorded; an edge with a gap above
\* POST_US inside a code ends it and is not recorded; every other edge inside
\* a code is appended; no edge outside a code is recorded; and the buffer is
\* empty whenever a code can start, so what is finalized is exactly the gaps
\* of the edges in between, in arrival order.
C17_CapturedContent ==
  [][/\ (fetching_code' /\ ~in_code') => code' = <<>>
     /\ EdgeStep =>
          IF ~in_code
          THEN /\ code' = code
               /\ IF fetching_code /\ Gap > PRE_US
                  THEN in_code' /\ watchdog'
                  ELSE ~in_code'
          ELSE IF Gap > POST_US
          THEN /\ ~in_code'
               /\ IF Len(code) > SHORT
                  THEN code' = normalise(code)
                  ELSE code' = <<>>
          ELSE in_code' /\ code' = Append(code, Gap * Scale)]_vars

\* inside a code, after the edges at 100, 200 and 317 that followed the start
\* at 0
C17_Witness ==
  /\ in_code
  /\ fetching_code
  /\ watchdog
  /\ last_tick = 317
  /\ code = <<100 * Scale, 100 * Scale, 117 * Scale>>

\* a step of the callback for a TIMEOUT report (only it takes the report)
TimeoutStep == timeout_pending /\ ~timeout_pending'

\* C18: a timeout delivered inside a code disarms the watchdog, leaves the
\* code and finalizes it; a timeout delivered outside a code changes neither
\* the buffer nor the flags; and a code is finalized only by a step that
\* leaves the in-code state, so at most once for each start.
C18_TimeoutOnce ==
  [][/\ TimeoutStep =>
          /\ ~watchdog'
          /\ ~in_code'
          /\ IF in_code
             THEN IF Len(code) > SHORT
                  THEN code' = normalise(code) /\ ~fetching_code'
                  ELSE code' = <<>> /\ fetching_code' = fetching_code
             ELSE code' = code /\ fetching_code' = fetching_code
     /\ (fetching_code /\ ~fetching_code') => Finalizes
     /\ (pc' = pc /\ code' # code /\ ~in_code') => Finalizes]_vars

\* a code has been finalized by the timeout that followed its last edge, and
\* that timeout is the only report there was
C18_Witness ==
  /\ pc \in {"wait_1", "wait_2"}
  /\ ~fetching_code
  /\ ~in_code
  /\ ~watchdog
  /\ ~timeout_pending
  /\ last_tick = 317
  /\ Len(code) = 3

\* C20: in_code implies fetching_code, and the main loop is never past its
\* wait while a code is being accumulated.
C20_InCodeImpliesFetching ==
  /\ in_code => fetching_code
  /\ in_code => pc \in {"wait_1", "wait_2"}
  /\ pc \in ReadPcs => (~in_code /\ ~fetching_code)

\* a code is being accumulated while the main loop waits for the confirming
\* press
C20_Witness ==
  /\ in_code
  /\ fetching_code
  /\ pc = "wait_2"
  /\ Len(code) > SHORT

\* C12 (as stated): whenever a record or playback session loads the store
\* and the file is missing or cannot be parsed, the session continues with an
\* empty mapping; it neither terminates nor raises an error.
C12_LoadNeverFatal ==
  [][(pc \in Stopped /\ files[Primary].kind # "data") =>
       (records' = EmptyStore /\ pc' \in {"rec", "play_loop"})]_vars

\* the positions between the first rename of a save and the end of its write
SavePcs == {"backup_2", "backup_3", "open_w", "write"}

\* C13 (as stated): at every intermediate point of a save of a store whose
\* file existed, the primary path holds the complete previous mapping or the
\* complete new mapping; it is never missing or partially written.
C13_AtomicWriteBack ==
  (pc \in SavePcs /\ files_before[Primary].kind = "data") =>
     files[Primary] \in {files_before[Primary], Data(records)}

\* C14: when a save has written, .bak2 holds what .bak1 held before the save
\* if .bak1 existed and is untouched otherwise, .bak1 holds what .bak held if
\* it existed and is absent otherwise, .bak holds what the primary file held
\* if it existed and is absent otherwise, and the primary file holds the new
\* mapping; and every step of a save is followed by the next one whether its
\* source existed or not.
C14_RotationStep ==
  [][/\ (pc = "write" /\ pc' = "idle") =>
          /\ files'[Bak2] = IF files_before[Bak1] # Missing
                            THEN files_before[Bak1]
                            ELSE files_before[Bak2]
          /\ files'[Bak1] = files_before[Bak]
          /\ files'[Bak] = files_before[Primary]
          /\ files'[Primary] = Data(records)
     /\ pc = "backup_2" => pc' = "backup_3"
     /\ pc = "backup_3" => pc' = "open_w"
     /\ pc = "open_w" => pc' = "write"
     /\ pc = "write" => pc' = "idle"]_vars

\* a save has written although neither the primary file nor .bak existed,
\* and what was .bak1 is now .bak2
C14_Witness ==
  /\ pc = "idle"
  /\ Len(versions) = 2
  /\ files_before[Primary] = Missing
  /\ files_before[Bak] = Missing
  /\ files_before[Bak1] = Data(StoreOld)
  /\ files[Bak2] = Data(StoreOld)
  /\ files[Bak1] = Missing
  /\ files[Primary].kind = "data"

\* C15 (as stated): after three or more consecutive saves the three backups
\* exist and hold the three versions before the current one, newest first.
C15_Generations ==
  (pc \notin SavePcs /\ Len(versions) >= 4) =>
     /\ files[Bak] = versions[Len(versions) - 1]
     /\ files[Bak1] = versions[Len(versions) - 2]
     /\ files[Bak2] = versions[Len(versions) - 3]
     /\ files[Bak2] # Missing

\* C15 (amended): provided the primary file existed before the first save,
\* after three or more consecutive saves the three backups exist and hold the
\* three versions before the current one, newest first; so the fourth save
\* replaces the version that was in .bak2 after the third.
C15_GenerationsWhenPresent ==
  (pc \notin SavePcs /\ Len(versions) >= 4 /\ versions[1] # Missing) =>
     /\ files[Bak] = versions[Len(versions) - 1]
     /\ files[Bak1] = versions[Len(versions) - 2]
     /\ files[Bak2] = versions[Len(versions) - 3]
     /\ files[Bak2] # Missing

\* four saves to a path that held a store: .bak2 holds the version written
\* by the first save, which differs from the one that was there before it
C15_Witness ==
  /\ pc = "idle"
  /\ Len(versions) = 5
  /\ versions[1] = Data(Store0)
  /\ files[Bak2] = versions[2]
  /\ versions[2] # versions[1]
  /\ versions[3] # versions[2]

\* the ids of l that are in the store r, in the order of l
Present(l, r) == SelectSeq(l, LAMBDA a : a \in DOMAIN r)
\* one transmission for each of them
Transmissions(l, r) ==
  [i \in 1..Len(Present(l, r)) |->
     <<Present(l, r)[i], r[Present(l, r)[i]]>>]

\* C16: an id that is absent from the store transmits nothing and the loop
\* goes on to the next id; an id that is present is transmitted once; and
\* when playback returns, the transmissions are those of the ids of the list
\* that are in the store, one per occurrence, in list order.
C16_PlaybackSkipsUnknown ==
  [][/\ (pc = "play_loop" /\ idx < Len(play_ids)) =>
          /\ pc' = "play_loop"
          /\ idx' = idx + 1
          /\ sent' = IF play_ids[idx + 1] \in DOMAIN records
                     THEN Append(sent, <<play_ids[idx + 1],
                                         records[play_ids[idx + 1]]>>)
                     ELSE sent
     /\ (pc = "play_loop" /\ pc' = "play_done") =>
          sent' = Transmissions(play_ids, records)]_vars

\* playback of an unknown id followed by twice the same known id has returned
C16_Witness ==
  /\ pc = "play_done"
  /\ play_ids = <<"x", "a", "a">>
  /\ "a" \in DOMAIN records
  /\ Len(sent) = 2

====
